---------------------------- MODULE Spec2Model ----------------------------
(* Retrieval engine of the Multimodal RAG system (src/src/core/retrieval.py) *)
(* with the result cache, the vector index and the completion service it     *)
(* calls, and the /api/query handler in front of it.                         *)
(*                                                                           *)
(* Distances are integers (0, 1, 2 stand for cosine distances 0.0, 1.0,      *)
(* 2.0), so a relevance score 1 - distance is an integer in -1 .. 1.         *)
(* Python dicts are records; a key that a dict does not carry is Absent for  *)
(* a string field and the empty sequence for expanded_queries (which always  *)
(* holds at least the original query when the key is present).               *)
EXTENDS Integers, Sequences, FiniteSets, TLC

VARIABLES
    cache,          \* entries of the diskcache directory: key -> [value, expire_time]
    now,            \* wall clock, in seconds
    index,          \* ids stored in the Chroma collection
    grok_service,   \* TRUE iff Config.GROK_API_KEY is set (self.grok_service is not None)
    cache_enabled,  \* Config.CACHE_ENABLED (self.cache is a Cache, not None)
    last,           \* outcome of the most recent engine / handler call
    merge_in,       \* per-variant index results handed to the expanded merge
    merge_out,      \* merged, sorted and truncated result of the expanded merge
    fn_in,          \* arguments of a pure function (cache key, rerank, classify)
    fn_out,         \* what the function returned for fn_in
    chunker,        \* chunk_text: its arguments, loop position and emitted chunks
    ingest          \* ingest_multiple_files: its arguments, futures and results

vars == <<cache, now, index, grok_service, cache_enabled, last, merge_in, merge_out,
          fn_in, fn_out, chunker, ingest>>

-----------------------------------------------------------------------------
(* Bounds of the exploration *)

MaxTicks == 1
MaxCacheEntries == 1
MaxVariants == 2
MaxNResults == 2
MaxFilterKeys == 2
MaxCandidates == 3
MaxPhrases == 2
MaxTextLen == 5
MaxChunkSize == 4
MaxChunks == 8

(* Program constants *)

CacheTTL == 3600
MaxDistance == 2
HybridFactor == 2
DefaultNResults == 5

Absent == "<absent>"

-----------------------------------------------------------------------------
(* The stored chunks.  Each id has a text, metadata, and a cosine distance   *)
(* to every query text; the embedding is deterministic, so the distance is   *)
(* a function of (query text, id).                                           *)

Ids == {"d1", "d2", "d3"}

IdRank(id) == CASE id = "d1" -> 1 [] id = "d2" -> 2 [] OTHER -> 3

Document(id) == "text of " \o id

DocLength(id) == CASE id = "d1" -> 500 [] id = "d2" -> 100 [] OTHER -> 1500

Metadata(id) ==
    CASE id = "d1" -> [file_type |-> "pdf", source |-> "a.pdf"]
      [] id = "d2" -> [file_type |-> "txt", source |-> "b.txt"]
      [] OTHER     -> [file_type |-> "txt", source |-> "c.txt"]

Distance(q, id) ==
    CASE q = "q1" -> (CASE id = "d1" -> 0 [] id = "d2" -> 1 [] OTHER -> 1)
      [] q = "q2" -> (CASE id = "d1" -> 2 [] id = "d2" -> 0 [] OTHER -> 1)
      [] q = "q3" -> (CASE id = "d1" -> 1 [] id = "d2" -> 2 [] OTHER -> 0)
      [] OTHER    -> 1

-----------------------------------------------------------------------------
(* Python values *)

NoFilter == [none |-> TRUE, items |-> <<>>]

DictFilter(items) == [none |-> FALSE, items |-> items]

PdfFilter == DictFilter(<< <<"file_type", "pdf">> >>)

PngFilter == DictFilter(<< <<"file_type", "png">> >>)

\* bool(filter_dict): None and {} are falsy
Truthy(f) == ~f.none /\ Len(f.items) > 0

RECURSIVE JoinItems(_)
JoinItems(items) ==
    IF Len(items) = 0 THEN ""
    ELSE LET h == "'" \o items[1][1] \o "': '" \o items[1][2] \o "'"
         IN IF Len(items) = 1 THEN h ELSE h \o ", " \o JoinItems(Tail(items))

\* str(filter_dict): pairs in insertion order
PyStr(f) == IF f.none THEN "None" ELSE "{" \o JoinItems(f.items) \o "}"

\* f"{query}:{n_results}:{strategy}:{str(filter_dict)}"
CacheKey(query, n_results, strategy, filter_dict) ==
    query \o ":" \o ToString(n_results) \o ":" \o strategy \o ":" \o PyStr(filter_dict)

Min(a, b) == IF a < b THEN a ELSE b

Max(a, b) == IF a > b THEN a ELSE b

\* s[:n]
Take(s, n) == IF n >= 0 THEN SubSeq(s, 1, Min(n, Len(s)))
              ELSE SubSeq(s, 1, Max(0, Len(s) + n))

-----------------------------------------------------------------------------
(* The log of the calls one request makes on its collaborators *)

Call(op, q, n, f) == [op |-> op, query |-> q, n_results |-> n, filter |-> f]

CacheLenCall == Call("cache_len", "", 0, NoFilter)

CacheGetCall(key) == Call("cache_get", key, 0, NoFilter)

CacheSetCall(key) == Call("cache_set", key, 0, NoFilter)

EmbedCall(q) == Call("embed", q, 0, NoFilter)

IndexCall(q, n, f) == Call("index", q, n, f)

CompleteCall(q) == Call("complete", q, 0, NoFilter)

CountCalls(calls, op) == Cardinality({i \in 1..Len(calls) : calls[i].op = op})

-----------------------------------------------------------------------------
(* Vector index: VectorStore.query over the Chroma collection *)

\* where-clause of collection.query: every pair of the filter equals the metadata
Matches(id, f) ==
    \A i \in 1..Len(f.items) :
        /\ f.items[i][1] \in DOMAIN Metadata(id)
        /\ Metadata(id)[f.items[i][1]] = f.items[i][2]

Nearer(q, a, b) ==
    \/ Distance(q, a) < Distance(q, b)
    \/ Distance(q, a) = Distance(q, b) /\ IdRank(a) < IdRank(b)

\* the candidates in ascending distance order, as the collection answers
RECURSIVE Nearest(_, _)
Nearest(q, S) ==
    IF S = {} THEN <<>>
    ELSE LET m == CHOOSE a \in S : \A b \in S \ {a} : Nearer(q, a, b)
         IN <<m>> \o Nearest(q, S \ {m})

EmptyResults == [ids |-> <<>>, documents |-> <<>>, metadatas |-> <<>>, distances |-> <<>>]

\* collection.query(query_embeddings, n_results, where) formatted by VectorStore.query
CollectionQuery(idx, q, n, f) ==
    LET cand == IF Truthy(f) THEN {id \in idx : Matches(id, f)} ELSE idx
        top  == Take(Nearest(q, cand), n)
    IN [ids       |-> top,
        documents |-> [i \in 1..Len(top) |-> Document(top[i])],
        metadatas |-> [i \in 1..Len(top) |-> Metadata(top[i])],
        distances |-> [i \in 1..Len(top) |-> Distance(q, top[i])]]

\* VectorStore.query with an except branch that answers empty results
VectorStoreQuerySwallowing(idx, q, n, f, fault) ==
    LET calls == <<EmbedCall(q), IndexCall(q, n, f)>>
    IN IF fault \/ n <= 0
       THEN [ok |-> TRUE, results |-> EmptyResults, calls |-> calls]
       ELSE [ok |-> TRUE, results |-> CollectionQuery(idx, q, n, f), calls |-> calls]

\* VectorStore.query: embeds the text, queries the collection, re-raises any
\* error.  fault = TRUE when the collection is unavailable; Chroma itself
\* rejects n_results <= 0.
VectorStoreQuery(idx, q, n, f, fault) ==
    LET calls == <<EmbedCall(q), IndexCall(q, n, f)>>
    IN IF fault \/ n <= 0
       THEN [ok |-> FALSE, results |-> EmptyResults, calls |-> calls]
       ELSE [ok |-> TRUE, results |-> CollectionQuery(idx, q, n, f), calls |-> calls]

\* a hybrid_query that returns every candidate of its dense query
HybridQueryUntruncated(idx, q, n, fault) ==
    VectorStoreQuery(idx, q, n * HybridFactor, NoFilter, fault)

\* VectorStore.hybrid_query: dense query for 2 * n_results, truncated, no filter
HybridQuery(idx, q, n, fault) ==
    LET r == VectorStoreQuery(idx, q, n * HybridFactor, NoFilter, fault)
    IN IF ~r.ok THEN r
       ELSE [ok |-> TRUE,
             results |-> [ids       |-> Take(r.results.ids, n),
                          documents |-> Take(r.results.documents, n),
                          metadatas |-> Take(r.results.metadatas, n),
                          distances |-> Take(r.results.distances, n)],
             calls |-> r.calls]

-----------------------------------------------------------------------------
(* Retrieval strategies: RetrievalEngine._semantic_retrieval,                *)
(* _hybrid_retrieval, _expanded_retrieval                                    *)

\* scores that are the distances themselves
DistancesAsScores(distances) == distances

RelevanceScores(distances) == [i \in 1..Len(distances) |-> 1 - distances[i]]

ResultSet(r, expanded_queries, search_type) ==
    [ids              |-> r.ids,
     documents        |-> r.documents,
     metadatas        |-> r.metadatas,
     distances        |-> r.distances,
     relevance_scores |-> RelevanceScores(r.distances),
     expanded_queries |-> expanded_queries,
     search_type      |-> search_type,
     query            |-> Absent,
     strategy         |-> Absent,
     reranked         |-> FALSE]

NoResultSet == ResultSet(EmptyResults, <<>>, Absent)

Raised(calls) == [ok |-> FALSE, results |-> NoResultSet, calls |-> calls]

Returned(results, calls) == [ok |-> TRUE, results |-> results, calls |-> calls]

SemanticRetrieval(idx, q, n, f, fail_at) ==
    LET r == VectorStoreQuery(idx, q, n, f, fail_at = 1)
    IN IF r.ok THEN Returned(ResultSet(r.results, <<>>, Absent), r.calls)
       ELSE Raised(r.calls)

\* the filter is not handed to hybrid_query
HybridRetrieval(idx, q, n, f, fail_at) ==
    LET r == HybridQuery(idx, q, n, fail_at = 1)
    IN IF r.ok THEN Returned(ResultSet(r.results, <<>>, "hybrid_semantic"), r.calls)
       ELSE Raised(r.calls)

\* str.strip() on the lines the completion service is modelled to answer
Strip(line) ==
    CASE line = " q2" -> "q2"
      [] line = "q3 " -> "q3"
      [] line = "  "  -> ""
      [] OTHER        -> line

\* [q.strip() for q in expanded if q.strip()]
RECURSIVE NonBlank(_)
NonBlank(lines) ==
    IF lines = <<>> THEN <<>>
    ELSE IF Strip(Head(lines)) = "" THEN NonBlank(Tail(lines))
         ELSE <<Strip(Head(lines))>> \o NonBlank(Tail(lines))

\* query_expansion whose except branch answers no query at all
QueryExpansionEmptyOnFailure(query, completion) ==
    IF completion.ok THEN <<query>> \o NonBlank(completion.lines) ELSE <<>>

\* GrokChatService.query_expansion: completion = [ok, lines]; any error of
\* the completion call is caught and answered with [query]
QueryExpansion(query, completion) ==
    IF completion.ok THEN <<query>> \o NonBlank(completion.lines) ELSE <<query>>

Item(results, i) ==
    [id       |-> results.ids[i],
     document |-> results.documents[i],
     metadata |-> results.metadatas[i],
     distance |-> results.distances[i]]

\* the merge loop with the later occurrence of an id overwriting the earlier
RECURSIVE AddUniqueLastWins(_, _, _)
AddUniqueLastWins(acc, results, i) ==
    IF i > Len(results.ids) THEN acc
    ELSE AddUniqueLastWins(
             IF results.ids[i] \notin acc.seen_ids
             THEN [seen_ids    |-> acc.seen_ids \cup {results.ids[i]},
                   all_results |-> Append(acc.all_results, Item(results, i))]
             ELSE [seen_ids    |-> acc.seen_ids,
                   all_results |-> [j \in 1..Len(acc.all_results) |->
                                       IF acc.all_results[j].id = results.ids[i]
                                       THEN Item(results, i) ELSE acc.all_results[j]]],
             results, i + 1)

\* for idx, doc_id in enumerate(results["ids"]): first occurrence of an id wins
RECURSIVE AddUnique(_, _, _)
AddUnique(acc, results, i) ==
    IF i > Len(results.ids) THEN acc
    ELSE AddUnique(IF results.ids[i] \notin acc.seen_ids
                   THEN [seen_ids    |-> acc.seen_ids \cup {results.ids[i]},
                         all_results |-> Append(acc.all_results, Item(results, i))]
                   ELSE acc,
                   results, i + 1)

\* for exp_query in expanded_queries, over the answers of the index
RECURSIVE MergeVariants(_, _, _)
MergeVariants(acc, per_variant, v) ==
    IF v > Len(per_variant) THEN acc
    ELSE MergeVariants(AddUnique(acc, per_variant[v], 1), per_variant, v + 1)

MergedResults(per_variant) ==
    MergeVariants([seen_ids |-> {}, all_results |-> <<>>], per_variant, 1).all_results

\* list.sort(key=distance) is stable: x goes behind every item not farther than it
InsertByDistance(sorted, x) ==
    LET p == Cardinality({i \in 1..Len(sorted) : sorted[i].distance <= x.distance})
    IN SubSeq(sorted, 1, p) \o <<x>> \o SubSeq(sorted, p + 1, Len(sorted))

RECURSIVE SortByDistance(_, _)
SortByDistance(items, k) ==
    IF k = 0 THEN <<>> ELSE InsertByDistance(SortByDistance(items, k - 1), items[k])

\* the truncation without the sort
TopResultsUnsorted(all_results, n) == Take(all_results, n)

\* all_results.sort(key=distance); top_results = all_results[:n_results]
TopResults(all_results, n) == Take(SortByDistance(all_results, Len(all_results)), n)

FormatResults(top, expanded_queries) ==
    ResultSet([ids       |-> [i \in 1..Len(top) |-> top[i].id],
               documents |-> [i \in 1..Len(top) |-> top[i].document],
               metadatas |-> [i \in 1..Len(top) |-> top[i].metadata],
               distances |-> [i \in 1..Len(top) |-> top[i].distance]],
              expanded_queries, Absent)

ExpandedMerge(per_variant, n, expanded_queries) ==
    FormatResults(TopResults(MergedResults(per_variant), n), expanded_queries)

RECURSIVE ConcatCalls(_, _)
ConcatCalls(answers, k) ==
    IF k = 0 THEN <<>> ELSE ConcatCalls(answers, k - 1) \o answers[k].calls

ExpandedRetrieval(idx, q, n, f, grok, completion, fail_at) ==
    LET expanded_queries == IF grok THEN QueryExpansion(q, completion) ELSE <<q>>
        pre      == IF grok THEN <<CompleteCall(q)>> ELSE <<>>
        answers  == [v \in 1..Len(expanded_queries) |->
                        VectorStoreQuery(idx, expanded_queries[v], n, f, fail_at = v)]
        failed   == {v \in 1..Len(expanded_queries) : ~answers[v].ok}
        first    == CHOOSE v \in failed : \A w \in failed : v <= w
    IN IF failed # {}
       THEN Raised(pre \o ConcatCalls(answers, first))
       ELSE Returned(ExpandedMerge([v \in 1..Len(expanded_queries) |-> answers[v].results],
                                   n, expanded_queries),
                     pre \o ConcatCalls(answers, Len(expanded_queries)))

-----------------------------------------------------------------------------
(* Result cache: the diskcache.Cache the engine opens on Config.CACHE_DIR.   *)
(* An entry is live while expire_time > now; len() counts every stored row,  *)
(* expired ones included; set() culls the expired rows.                      *)

EmptyCache == [k \in {} |-> [value |-> NoResultSet, expire_time |-> 0]]

CacheLen(c) == Cardinality(DOMAIN c)

\* a cache object that is truthy even when none was opened
CacheAlwaysTruthy(enabled, c) == TRUE

\* bool(self.cache): None is falsy, and a Cache is falsy while len() is 0
CacheTruthy(enabled, c) == enabled /\ CacheLen(c) > 0

CacheHas(c, key, t) == key \in DOMAIN c /\ c[key].expire_time > t

\* a get that renews the time-to-live of the entry it reads
CacheGetTouching(c, key, t) ==
    [found |-> CacheHas(c, key, t),
     value |-> IF CacheHas(c, key, t) THEN c[key].value ELSE NoResultSet,
     cache |-> IF CacheHas(c, key, t)
               THEN [c EXCEPT ![key].expire_time = t + CacheTTL] ELSE c]

\* cache.get(key): the live entry's value, or None; the store is not touched
CacheGet(c, key, t) ==
    [found |-> CacheHas(c, key, t),
     value |-> IF CacheHas(c, key, t) THEN c[key].value ELSE NoResultSet,
     cache |-> c]

CacheSet(c, key, value, expire, t) ==
    LET e    == [value |-> value, expire_time |-> t + expire]
        all  == [k \in DOMAIN c \cup {key} |-> IF k = key THEN e ELSE c[k]]
        kept == {k \in DOMAIN all : ~(all[k].expire_time < t)}
    IN [k \in kept |-> all[k]]

-----------------------------------------------------------------------------
(* RetrievalEngine.retrieve *)

Outcome(outcome, results, calls, c, hit) ==
    [outcome |-> outcome, results |-> results, calls |-> calls, cache |-> c, hit |-> hit]

\* a dispatch that takes an unknown strategy name for an error
DispatchRejectingUnknown(idx, q, n, s, f, grok, env) ==
    IF s = "semantic" THEN SemanticRetrieval(idx, q, n, f, env.index_fail_at)
    ELSE IF s = "hybrid" THEN HybridRetrieval(idx, q, n, f, env.index_fail_at)
    ELSE IF s = "expanded"
         THEN ExpandedRetrieval(idx, q, n, f, grok, env.completion, env.index_fail_at)
    ELSE Raised(<<>>)

Dispatch(idx, q, n, s, f, grok, env) ==
    IF s = "semantic" THEN SemanticRetrieval(idx, q, n, f, env.index_fail_at)
    ELSE IF s = "hybrid" THEN HybridRetrieval(idx, q, n, f, env.index_fail_at)
    ELSE IF s = "expanded"
         THEN ExpandedRetrieval(idx, q, n, f, grok, env.completion, env.index_fail_at)
    ELSE SemanticRetrieval(idx, q, n, f, env.index_fail_at)

\* the lookup: skipped while bool(self.cache) is false
CacheLookup(c, cache_key, t, truthy) ==
    IF truthy THEN CacheGet(c, cache_key, t)
    ELSE [found |-> FALSE, value |-> NoResultSet, cache |-> c]

\* what `if self.cache:` followed by one operation calls on the cache
CacheCalls(enabled, truthy, call) ==
    IF ~enabled THEN <<>>
    ELSE IF truthy THEN <<CacheLenCall, call>>
    ELSE <<CacheLenCall>>

\* retrieve once the lookup (got) and the strategy (strat) have answered; the
\* strategy's answer is used only on a miss
RetrieveFrom(c, t, enabled, q, s, env, cache_key, truthy, got, strat) ==
    LET lookup  == CacheCalls(enabled, truthy, CacheGetCall(cache_key))
        results == [strat.results EXCEPT !.query = q, !.strategy = s]
    IN IF enabled /\ env.cache_fault = "read"
       THEN Outcome("raised", NoResultSet, <<CacheLenCall>>, c, FALSE)
       ELSE IF got.found
       THEN Outcome("returned", got.value, lookup, got.cache, TRUE)
       ELSE IF ~strat.ok
       THEN Outcome("raised", NoResultSet, lookup \o strat.calls, got.cache, FALSE)
       ELSE IF enabled /\ env.cache_fault = "write"
       THEN Outcome("raised", NoResultSet, lookup \o strat.calls \o <<CacheLenCall>>,
                    got.cache, FALSE)
       ELSE Outcome("returned", results,
                    lookup \o strat.calls
                           \o CacheCalls(enabled, truthy, CacheSetCall(cache_key)),
                    IF truthy THEN CacheSet(got.cache, cache_key, results, CacheTTL, t)
                    ELSE got.cache,
                    FALSE)

\* env = [cache_fault, index_fail_at, completion]: what the collaborators do
\* during this call
Retrieve(c, t, idx, grok, enabled, q, n, s, f, env) ==
    RetrieveFrom(c, t, enabled, q, s, env, CacheKey(q, n, s, f), CacheTruthy(enabled, c),
                 CacheLookup(c, CacheKey(q, n, s, f), t, CacheTruthy(enabled, c)),
                 Dispatch(idx, q, n, s, f, grok, env))

-----------------------------------------------------------------------------
(* RetrievalEngine.rerank_results.  Scores are kept as integers, 10000 times *)
(* the float score.                                                          *)

Abs(x) == IF x < 0 THEN 0 - x ELSE x

OptimalLength == 500

\* len(doc) of the stored texts
TextLength(doc) ==
    CASE doc = Document("d1") -> DocLength("d1")
      [] doc = Document("d2") -> DocLength("d2")
      [] doc = Document("d3") -> DocLength("d3")
      [] OTHER -> Len(doc)

RerankScore(doc, metadata, dist) ==
    (1 - dist) * 7000
    + Max(0, 2 * OptimalLength - Abs(TextLength(doc) - OptimalLength))
    + (IF "file_type" \in DOMAIN metadata /\ metadata.file_type = "pdf" THEN 1000 ELSE 0)

\* np.argsort(scores): positions in ascending score order
RECURSIVE ArgSort(_, _)
ArgSort(scores, k) ==
    IF k = 0 THEN <<>>
    ELSE LET sorted == ArgSort(scores, k - 1)
             p == Cardinality({i \in 1..Len(sorted) : scores[sorted[i]] <= scores[k]})
         IN SubSeq(sorted, 1, p) \o <<k>> \o SubSeq(sorted, p + 1, Len(sorted))

\* the orders np.argsort may answer: its default sort is not stable, so
\* positions of equal score come in any order
ArgSorts(scores) ==
    {p \in [1..Len(scores) -> 1..Len(scores)] :
        /\ \A i, j \in DOMAIN p : i # j => p[i] # p[j]
        /\ \A i \in 1..(Len(p) - 1) : scores[p[i]] <= scores[p[i + 1]]}

\* [::-1] left out
KeepOrder(s) == s

Reverse(s) == [i \in 1..Len(s) |-> s[Len(s) + 1 - i]]

\* the scores of the zipped (document, metadata, distance) triples
RerankScores(results) ==
    [i \in 1..Min(Len(results.documents),
                  Min(Len(results.metadatas), Len(results.distances))) |->
        RerankScore(results.documents[i], results.metadatas[i], results.distances[i])]

\* the reranked dict built from the chosen positions
Reorder(results, rerank_scores, sorted_indices) ==
    [ids              |-> [i \in DOMAIN sorted_indices |-> results.ids[sorted_indices[i]]],
     documents        |-> [i \in DOMAIN sorted_indices |-> results.documents[sorted_indices[i]]],
     metadatas        |-> [i \in DOMAIN sorted_indices |-> results.metadatas[sorted_indices[i]]],
     distances        |-> [i \in DOMAIN sorted_indices |-> results.distances[sorted_indices[i]]],
     relevance_scores |-> [i \in DOMAIN sorted_indices |-> rerank_scores[sorted_indices[i]]],
     expanded_queries |-> <<>>,
     search_type      |-> Absent,
     query            |-> Absent,
     strategy         |-> Absent,
     reranked         |-> TRUE]

\* rerank_results when np.argsort answers the given order
RerankWith(results, top_k, order) ==
    IF results.documents = <<>> THEN results
    ELSE Reorder(results, RerankScores(results), Take(Reverse(order), top_k))

\* rerank_results with the order a stable argsort answers
RerankResults(results, top_k) ==
    RerankWith(results, top_k, ArgSort(RerankScores(results), Len(RerankScores(results))))

-----------------------------------------------------------------------------
(* Inputs *)

Req(q, n, s, f) == [query |-> q, n_results |-> n, strategy |-> s, filter |-> f]

\* the retrieve calls that are issued: the three strategies, with and without
\* a filter, a filter no chunk satisfies, an empty query, a non-positive count,
\* a strategy name the engine does not know
Requests ==
    {Req("q1", 2, "semantic", NoFilter),
     Req("q1", 2, "keyword", NoFilter),
     Req("q1", 2, "semantic", PngFilter),
     Req("q1", 1, "hybrid", PdfFilter),
     Req("q1", 2, "expanded", NoFilter),
     Req("", 2, "semantic", NoFilter),
     Req("q1", 0, "semantic", NoFilter)}

NoCompletion == [ok |-> FALSE, lines |-> <<>>]

Completions == {NoCompletion, [ok |-> TRUE, lines |-> <<" q2", "  ", "q3 ">>]}

Env(cache_fault, index_fail_at, completion) ==
    [cache_fault |-> cache_fault, index_fail_at |-> index_fail_at, completion |-> completion]

\* what the collaborators do during retrieve(q, n, s, f): the completion
\* service answers or fails, and at most one of the cache read, the cache write
\* and the k-th index call fails (the first failure ends the call, so a second
\* one would never be met).  The index rejects a call for n <= 0 on its own.
Envs(q, n, s) ==
    LET completions == IF s = "expanded" /\ grok_service THEN Completions ELSE {NoCompletion}
        variants(c) == IF s = "expanded" /\ grok_service THEN Len(QueryExpansion(q, c)) ELSE 1
    IN {Env("none", 0, c) : c \in completions}
       \cup (IF n > 0
             THEN UNION {{Env("none", k, c) : k \in 1..variants(c)} : c \in completions}
             ELSE {})
       \cup (IF cache_enabled /\ n > 0 /\ q # ""
             THEN {Env(cf, 0, c) : cf \in {"read", "write"}, c \in completions}
             ELSE {})

NoneAnswer == "<None>"

\* request.get_json() of POST /api/query: no JSON body, or a JSON object
NoBody == [json |-> FALSE, data |-> <<>>]

JsonBody(data) == [json |-> TRUE, data |-> data]

HttpRequests ==
    {NoBody,
     JsonBody(<<>>),
     JsonBody([n_results |-> 2]),
     JsonBody([query |-> "q1", n_results |-> 2, rerank |-> TRUE]),
     JsonBody([query |-> "", n_results |-> 0])}

\* what a call handed back besides the ResultSet
Extra(retrieved, status, answer, answer_ok, sources, body) ==
    [retrieved |-> retrieved, status |-> status, answer |-> answer,
     answer_ok |-> answer_ok, sources |-> sources, body |-> body]

NoExtra == Extra(TRUE, 0, Absent, TRUE, <<>>, NoBody)

\* the record of a finished call
Finished(op, q, n, s, f, o, env, x) ==
    [op |-> op, query |-> q, n_results |-> n, strategy |-> s, filter |-> f,
     outcome |-> o.outcome, results |-> o.results, calls |-> o.calls, hit |-> o.hit,
     env |-> env, at |-> now,
     retrieved |-> x.retrieved, status |-> x.status, answer |-> x.answer,
     answer_ok |-> x.answer_ok, sources |-> x.sources, body |-> x.body]

NoEnv == Env("none", 0, NoCompletion)

NoCall ==
    [op |-> "none", query |-> "", n_results |-> 0, strategy |-> Absent, filter |-> NoFilter,
     outcome |-> "none", results |-> NoResultSet, calls |-> <<>>, hit |-> FALSE,
     env |-> NoEnv, at |-> 0,
     retrieved |-> FALSE, status |-> 0, answer |-> Absent,
     answer_ok |-> TRUE, sources |-> <<>>, body |-> NoBody]

\* what an earlier process left in the cache directory: nothing, or the
\* result of one retrieve it stored half a time-to-live before this process
\* started
SeedRequests == {Req("q1", 2, "semantic", NoFilter), Req("q1", 2, "expanded", NoFilter)}

SeedResult(r) ==
    LET strat == Dispatch(Ids, r.query, r.n_results, r.strategy, r.filter, FALSE, NoEnv)
    IN [strat.results EXCEPT !.query = r.query, !.strategy = r.strategy]

SeedCaches ==
    {EmptyCache} \cup
    {CacheSet(EmptyCache, CacheKey(r.query, r.n_results, r.strategy, r.filter),
              SeedResult(r), CacheTTL, 0 - CacheTTL \div 2) : r \in SeedRequests}

\* no pure function is being applied, chunk_text is not running
NoFn == [fn |-> "none"]

\* turn is the number of loop iterations made, modulo 2
IdleChunker ==
    [pc |-> "idle", text |-> <<>>, chunk_size |-> 0, overlap |-> 0,
     start |-> 0, chunks |-> <<>>, windows |-> <<>>, turn |-> 0]

\* ingest_multiple_files is not running
IdleIngest ==
    [pc |-> "idle", file_paths |-> <<>>, parallel |-> FALSE, futures |-> <<>>,
     completed |-> <<>>, results |-> <<>>, stored |-> 0]

-----------------------------------------------------------------------------
(* State machine *)

Init ==
    /\ cache_enabled \in BOOLEAN
    /\ cache \in (IF cache_enabled THEN SeedCaches ELSE {EmptyCache})
    /\ now = 0
    /\ index = Ids
    /\ grok_service \in BOOLEAN
    /\ last = NoCall
    /\ merge_in = [per_variant |-> <<>>, n_results |-> 1]
    /\ merge_out = NoResultSet
    /\ fn_in = NoFn
    /\ fn_out = NoFn
    /\ chunker = IdleChunker
    /\ ingest = IdleIngest

\* retrieval_engine.retrieve(query, n_results, strategy, filter_dict)
RetrieveCall(q, n, s, f, env) ==
    \E o \in {Retrieve(cache, now, index, grok_service, cache_enabled, q, n, s, f, env)} :
        /\ CacheLen(o.cache) <= MaxCacheEntries
        /\ cache' = o.cache
        /\ last' = Finished("retrieve", q, n, s, f, o, env, NoExtra)
        /\ UNCHANGED <<now, index, grok_service, cache_enabled, merge_in, merge_out,
                     fn_in, fn_out, chunker, ingest>>

DoRetrieve ==
    \E r \in Requests :
        \E env \in Envs(r.query, r.n_results, r.strategy) :
            RetrieveCall(r.query, r.n_results, r.strategy, r.filter, env)

\* GrokChatService.answer_with_context: the completion call answers, or its
\* error is caught and turned into a text ("unavailable" stands for str(e))
AnswerWithContext(answer_ok) ==
    IF answer_ok THEN "answer" ELSE "Error generating answer: " \o "unavailable"

\* RetrievalEngine.answer_query(query, n_results): what follows the retrieve
AnswerOf(grok, results, answer_ok) ==
    [answer  |-> IF grok THEN AnswerWithContext(answer_ok) ELSE NoneAnswer,
     sources |-> results.documents]

AnswerQueryCall(q, n, env, answer_ok) ==
    \E o \in {Retrieve(cache, now, index, grok_service, cache_enabled,
                       q, n, "expanded", NoFilter, env)} :
        \E a \in {AnswerOf(grok_service, o.results, answer_ok)} :
            /\ CacheLen(o.cache) <= MaxCacheEntries
            /\ cache' = o.cache
            /\ last' = IF o.outcome = "raised"
                       THEN Finished("answer_query", q, n, "expanded", NoFilter, o, env,
                                     Extra(TRUE, 0, Absent, answer_ok, <<>>, NoBody))
                       ELSE Finished("answer_query", q, n, "expanded", NoFilter,
                                     [o EXCEPT !.calls =
                                         IF grok_service THEN @ \o <<CompleteCall(q)>> ELSE @],
                                     env,
                                     Extra(TRUE, 0, a.answer, answer_ok, a.sources, NoBody))
            /\ UNCHANGED <<now, index, grok_service, cache_enabled, merge_in, merge_out,
                     fn_in, fn_out, chunker, ingest>>

\* the completion call of the answer is reached only when retrieve returned
DoAnswerQuery ==
    \E answer_ok \in BOOLEAN :
        \E env \in Envs("q1", 2, "expanded") :
            /\ (~answer_ok => grok_service /\ env.cache_fault = "none" /\ env.index_fail_at = 0)
            /\ AnswerQueryCall("q1", 2, env, answer_ok)

\* RetrievalEngine.clear_cache
ClearCache ==
    /\ cache' = IF CacheTruthy(cache_enabled, cache) THEN EmptyCache ELSE cache
    /\ last' = Finished("clear_cache", "", 0, Absent, NoFilter,
                        Outcome("returned", NoResultSet, <<>>, cache', FALSE),
                        NoEnv, Extra(FALSE, 0, Absent, TRUE, <<>>, NoBody))
    /\ UNCHANGED <<now, index, grok_service, cache_enabled, merge_in, merge_out,
                     fn_in, fn_out, chunker, ingest>>

\* one time-to-live passes between two calls
Tick ==
    /\ now + CacheTTL <= MaxTicks * CacheTTL
    /\ now' = now + CacheTTL
    /\ UNCHANGED <<cache, index, grok_service, cache_enabled, last, merge_in, merge_out,
                   fn_in, fn_out, chunker, ingest>>

\* data.get(key, default)
Get(data, key, default) == IF key \in DOMAIN data THEN data[key] ELSE default

HttpOutcome == Outcome("responded", NoResultSet, <<>>, cache, FALSE)

\* query_documents: the body is checked for 'query', then retrieve and the
\* optional rerank run; any exception is answered 500.  Without a JSON body
\* get_json() answers None or raises, depending on the Flask release.
QueryDocuments(req, env, get_json_raises) ==
    IF ~req.json /\ get_json_raises
    THEN /\ last' = Finished("query_documents", "", 0, Absent, NoFilter, HttpOutcome,
                             NoEnv, Extra(FALSE, 500, Absent, TRUE, <<>>, req))
         /\ UNCHANGED cache
    ELSE IF ~req.json \/ req.data = <<>> \/ "query" \notin DOMAIN req.data
    THEN /\ last' = Finished("query_documents", "", 0, Absent, NoFilter, HttpOutcome,
                             NoEnv, Extra(FALSE, 400, Absent, TRUE, <<>>, req))
         /\ UNCHANGED cache
    ELSE \E query \in {req.data.query},
            n_results \in {Get(req.data, "n_results", DefaultNResults)},
            strategy \in {Get(req.data, "strategy", "semantic")},
            rerank \in {Get(req.data, "rerank", FALSE)},
            filter \in {Get(req.data, "filter", NoFilter)} :
             \E o \in {Retrieve(cache, now, index, grok_service, cache_enabled,
                                query, n_results, strategy, filter, env)} :
                 /\ CacheLen(o.cache) <= MaxCacheEntries
                 /\ cache' = o.cache
                 /\ last' = Finished("query_documents", query, n_results, strategy, filter,
                                     [o EXCEPT !.results =
                                         IF rerank /\ @.documents # <<>>
                                         THEN RerankResults(@, n_results) ELSE @],
                                     env,
                                     Extra(TRUE, IF o.outcome = "raised" THEN 500 ELSE 200,
                                           Absent, TRUE, <<>>, req))

DoQueryDocuments ==
    \E req \in HttpRequests, get_json_raises \in BOOLEAN :
        \E env \in Envs(Get(req.data, "query", ""),
                        Get(req.data, "n_results", DefaultNResults),
                        Get(req.data, "strategy", "semantic")) :
            /\ (req.json => ~get_json_raises)
            /\ (("query" \notin DOMAIN req.data) => env = NoEnv)
            /\ QueryDocuments(req, env, get_json_raises)
            /\ UNCHANGED <<now, index, grok_service, cache_enabled, merge_in, merge_out,
                     fn_in, fn_out, chunker, ingest>>

Next ==
    \/ DoRetrieve
    \/ DoAnswerQuery
    \/ DoQueryDocuments
    \/ ClearCache
    \/ Tick

Spec == Init /\ [][Next]_vars

-----------------------------------------------------------------------------
(* The merge of the expanded strategy on its own, over every list of         *)
(* per-variant answers one collection can give to the queries of one call.   *)

Ascending(distances) ==
    \A i \in 1..Len(distances) - 1 : distances[i] <= distances[i + 1]

\* what a collection whose matching chunks are S answers when asked for n
\* results: min(n, |S|) distinct ids of S in ascending distance order, the
\* distances depending on the query
IndexAnswers(S, n) ==
    {[ids       |-> ids,
      documents |-> [i \in 1..Len(ids) |-> Document(ids[i])],
      metadatas |-> [i \in 1..Len(ids) |-> Metadata(ids[i])],
      distances |-> ds] :
        ids \in {x \in [1..Min(n, Cardinality(S)) -> S] :
                    \A i, j \in DOMAIN x : i # j => x[i] # x[j]},
        ds \in {d \in [1..Min(n, Cardinality(S)) -> 0..MaxDistance] : Ascending(d)}}

MergeInputs ==
    UNION {[per_variant : [1..v -> IndexAnswers(S, n)], n_results : {n}] :
              <<v, n, S>> \in (1..MaxVariants) \X (1..MaxNResults) \X (SUBSET Ids)}

VariantNames == <<"q1", "q2", "q3", "q4", "q5">>

InitMerge ==
    /\ merge_in \in MergeInputs
    /\ merge_out = NoResultSet
    /\ cache = EmptyCache
    /\ cache_enabled = FALSE
    /\ now = 0
    /\ index = Ids
    /\ grok_service = TRUE
    /\ last = NoCall
    /\ fn_in = NoFn
    /\ fn_out = NoFn
    /\ chunker = IdleChunker
    /\ ingest = IdleIngest

\* the loop, sort and truncation of _expanded_retrieval on the given answers
ApplyExpandedMerge ==
    /\ merge_out = NoResultSet
    /\ merge_out' = ExpandedMerge(merge_in.per_variant, merge_in.n_results,
                                  SubSeq(VariantNames, 1, Len(merge_in.per_variant)))
    /\ UNCHANGED <<cache, now, index, grok_service, cache_enabled, last, merge_in,
                   fn_in, fn_out, chunker, ingest>>

NextMerge == ApplyExpandedMerge

SpecMerge == InitMerge /\ [][NextMerge]_vars

-----------------------------------------------------------------------------
(* The pure functions on their own: the cache key of retrieve,               *)
(* rerank_results and classify_query_type, each applied to arguments drawn   *)
(* from a bounded set.                                                       *)

\* the key/value pairs callers filter on
FilterPairs ==
    {<<"file_type", "pdf">>, <<"file_type", "txt">>, <<"source", "a.pdf">>, <<"page", "1">>}

\* dicts of up to MaxFilterKeys pairs, as the sequence of their pairs in
\* insertion order; a dict holds a key once
FilterDicts ==
    {DictFilter(items) :
        items \in {x \in UNION {[1..m -> FilterPairs] : m \in 0..MaxFilterKeys} :
                      \A i, j \in DOMAIN x : i # j => x[i][1] # x[j][1]}}

KeyRequests ==
    {Req("q1", n, s, f) : n \in 1..2, s \in {"semantic", "hybrid"},
                          f \in {NoFilter} \cup FilterDicts}

\* two retrieve calls whose cache keys are compared
KeyInputs == {[fn |-> "cache_key", a |-> a, b |-> b] : a \in KeyRequests, b \in KeyRequests}

\* line 60 of retrieve for both calls
ApplyCacheKey ==
    /\ fn_in.fn = "cache_key"
    /\ fn_out = NoFn
    /\ fn_out' = [fn |-> "cache_key",
                  a  |-> CacheKey(fn_in.a.query, fn_in.a.n_results,
                                  fn_in.a.strategy, fn_in.a.filter),
                  b  |-> CacheKey(fn_in.b.query, fn_in.b.n_results,
                                  fn_in.b.strategy, fn_in.b.filter)]
    /\ UNCHANGED <<cache, now, index, grok_service, cache_enabled, last, merge_in, merge_out,
                   fn_in, chunker, ingest>>

\* candidate sets handed to rerank_results: up to MaxCandidates chunks, each
\* with a text, a file type and a distance; two chunks may carry the same
\* text (the same passage ingested twice gets two ids)
RerankTexts == {"aa", "cccc"}

CandidateIds == <<"d1", "d2", "d3", "d4", "d5">>

CandidateSets ==
    UNION {{[ids       |-> SubSeq(CandidateIds, 1, m),
             documents |-> docs,
             metadatas |-> [i \in 1..m |-> [file_type |-> types[i]]],
             distances |-> ds] :
                docs \in [1..m -> RerankTexts],
                types \in [1..m -> {"pdf", "txt"}],
                ds \in [1..m -> 0..1]} : m \in 1..MaxCandidates}

RerankInputs ==
    {[fn |-> "rerank", results |-> ResultSet(c, <<>>, Absent), top_k |-> k] :
        c \in CandidateSets, k \in 0..(MaxCandidates + 1)}

\* rerank_results(query, results, top_k)
ApplyRerank ==
    /\ fn_in.fn = "rerank"
    /\ fn_out = NoFn
    /\ \E order \in ArgSorts(RerankScores(fn_in.results)) :
           fn_out' = [fn |-> "rerank",
                      results |-> RerankWith(fn_in.results, fn_in.top_k, order)]
    /\ UNCHANGED <<cache, now, index, grok_service, cache_enabled, last, merge_in, merge_out,
                   fn_in, chunker, ingest>>

\* s[a:b] of a Python str: negative indices count from the end, both are
\* clipped to the text
SliceIndex(s, a) == IF a < 0 THEN Max(a + Len(s), 0) ELSE Min(a, Len(s))

PySlice(s, a, b) ==
    IF SliceIndex(s, a) >= SliceIndex(s, b) THEN ""
    ELSE SubSeq(s, SliceIndex(s, a) + 1, SliceIndex(s, b))

\* the i-th character (from 1) of the text, "" outside of it
CharAt(s, i) == PySlice(s, Max(i - 1, 0), Max(i, 0))

\* QueryEngine.classify_query_type.  A query is a Python str; a pattern is
\* the sequence of its parts: a word boundary, '.*', or literal text.

LowerLetters == "abcdefghijklmnopqrstuvwxyz"

UpperLetters == "ABCDEFGHIJKLMNOPQRSTUVWXYZ"

\* the characters \w matches in the queries considered
WordChars ==
    {CharAt(cs, i) : cs \in {LowerLetters, UpperLetters, "0123456789_"},
                     i \in 1..Len("0123456789_")}
    \cup {CharAt(cs, i) : cs \in {LowerLetters, UpperLetters}, i \in 1..Len(LowerLetters)}

\* str.lower() and str.upper() of one character
LowerChar(c) ==
    IF \E i \in 1..Len(UpperLetters) : SubSeq(UpperLetters, i, i) = c
    THEN SubSeq(LowerLetters,
                CHOOSE i \in 1..Len(UpperLetters) : SubSeq(UpperLetters, i, i) = c,
                CHOOSE i \in 1..Len(UpperLetters) : SubSeq(UpperLetters, i, i) = c)
    ELSE c

UpperChar(c) ==
    IF \E i \in 1..Len(LowerLetters) : SubSeq(LowerLetters, i, i) = c
    THEN SubSeq(UpperLetters,
                CHOOSE i \in 1..Len(LowerLetters) : SubSeq(LowerLetters, i, i) = c,
                CHOOSE i \in 1..Len(LowerLetters) : SubSeq(LowerLetters, i, i) = c)
    ELSE c

RECURSIVE StrLower(_)
StrLower(s) ==
    IF s = "" THEN "" ELSE LowerChar(CharAt(s, 1)) \o StrLower(PySlice(s, 1, Len(s)))

RECURSIVE StrUpper(_)
StrUpper(s) ==
    IF s = "" THEN "" ELSE UpperChar(CharAt(s, 1)) \o StrUpper(PySlice(s, 1, Len(s)))

WordBoundary == "\\b"

AnyText == ".*"

\* \b at position i: exactly one of the characters before and at i is a word
\* character
AtBoundary(s, i) ==
    (CharAt(s, i - 1) \in WordChars) # (CharAt(s, i) \in WordChars)

\* the parts k.. of the pattern match s from position i on
RECURSIVE MatchFrom(_, _, _, _)
MatchFrom(pattern, k, s, i) ==
    IF k > Len(pattern) THEN TRUE
    ELSE IF pattern[k] = WordBoundary
         THEN AtBoundary(s, i) /\ MatchFrom(pattern, k + 1, s, i)
    ELSE IF pattern[k] = AnyText
         THEN \E j \in i..(Len(s) + 1) :
                 /\ \A m \in i..(j - 1) : CharAt(s, m) # "\n"
                 /\ MatchFrom(pattern, k + 1, s, j)
    ELSE /\ PySlice(s, i - 1, i - 1 + Len(pattern[k])) = pattern[k]
         /\ MatchFrom(pattern, k + 1, s, i + Len(pattern[k]))

\* re.search(pattern, s)
Search(pattern, s) == \E i \in 1..(Len(s) + 1) : MatchFrom(pattern, 1, s, i)

Word(w) == <<WordBoundary, w, WordBoundary>>

factual_patterns ==
    <<Word("what is"), Word("who is"), Word("when did"), Word("where is"),
      Word("how many"), Word("define"), Word("explain")>>

cross_modal_patterns ==
    <<Word("image"), Word("picture"), Word("photo"), Word("visual"),
      <<WordBoundary, "show", WordBoundary, AnyText, WordBoundary, "image", WordBoundary>>,
      <<WordBoundary, "describe", AnyText, "image", WordBoundary>> >>

vague_patterns ==
    <<Word("tell me about"), Word("information about"), Word("anything about"),
      Word("related to"), Word("similar to")>>

\* for pattern in patterns: if re.search(pattern, query_lower)
AnyMatch(patterns, s) == \E k \in 1..Len(patterns) : Search(patterns[k], s)

\* the families tried in another order: exploratory before factual
ClassifyVagueFirst(query_lower) ==
    IF AnyMatch(vague_patterns, query_lower) THEN "exploratory"
    ELSE IF AnyMatch(factual_patterns, query_lower) THEN "factual"
    ELSE IF AnyMatch(cross_modal_patterns, query_lower) THEN "cross_modal"
    ELSE "general"

\* the three loops of classify_query_type over query_lower
ClassifyLower(query_lower) ==
    IF AnyMatch(factual_patterns, query_lower) THEN "factual"
    ELSE IF AnyMatch(cross_modal_patterns, query_lower) THEN "cross_modal"
    ELSE IF AnyMatch(vague_patterns, query_lower) THEN "exploratory"
    ELSE "general"

classify_query_type(query) == ClassifyLower(StrLower(query))

\* the queries classified: up to MaxPhrases phrases joined by one separator,
\* in lower case, in upper case, or as written with a leading capital
Phrases ==
    {"what is", "somewhat is", "explain", "image", "subimage", "describe", "related to", "to"}

RECURSIVE JoinPhrases(_, _)
JoinPhrases(phrases, sep) ==
    IF Len(phrases) = 0 THEN ""
    ELSE IF Len(phrases) = 1 THEN phrases[1]
    ELSE phrases[1] \o sep \o JoinPhrases(Tail(phrases), sep)

Capitalized(s) == IF s = "" THEN "" ELSE UpperChar(CharAt(s, 1)) \o PySlice(s, 1, Len(s))

Queries ==
    UNION {{q, StrUpper(q), Capitalized(q)} :
              q \in {JoinPhrases(ps, sep) :
                        ps \in UNION {[1..m -> Phrases] : m \in 0..MaxPhrases},
                        sep \in {" ", "-", "\n"}}}

ClassifyInputs == {[fn |-> "classify", query |-> q] : q \in Queries}

ApplyClassify ==
    /\ fn_in.fn = "classify"
    /\ fn_out = NoFn
    /\ fn_out' = [fn |-> "classify", type |-> classify_query_type(fn_in.query)]
    /\ UNCHANGED <<cache, now, index, grok_service, cache_enabled, last, merge_in, merge_out,
                   fn_in, chunker, ingest>>

\* QueryEngine.retrieve_documents of the backend.

PyNone == "<None>"

\* Config.TOP_K of the backend
TopK == 5

\* n_results for a factual query
FactualResults == 3

\* n_results for an exploratory query
ExploratoryResults == 8

\* the 'content_type' the document processor gave the chunk
ContentType(id) == IF id = "d1" THEN "image" ELSE "text"

\* the items VectorStore.search formats from the collection's answer
SearchItems(q, top) ==
    [i \in 1..Len(top) |->
        [id |-> top[i], content |-> Document(top[i]),
         metadata |-> [content_type |-> ContentType(top[i])],
         distance |-> Distance(q, top[i]), relevance_score |-> 1 - Distance(q, top[i])]]

\* VectorStore.search(query, n_results, filter_metadata) of the backend;
\* filter_metadata is None or the content type asked for
VectorSearch(collection, q, n, filter_metadata) ==
    SearchItems(q, Take(Nearest(q, IF filter_metadata = PyNone THEN collection
                                   ELSE {id \in collection : ContentType(id) = filter_metadata}),
                        n))

SearchCall(q, n, filter_metadata) ==
    [query |-> q, n_results |-> n, filter_metadata |-> filter_metadata]

\* retrieve_documents from its first search on: results is what it answered
RetrieveWithRetry(collection, q, n, filter_metadata, results) ==
    IF results # <<>>
    THEN [searches |-> <<SearchCall(q, n, filter_metadata)>>, results |-> results]
    ELSE [searches |-> <<SearchCall(q, n, filter_metadata), SearchCall(q, n, PyNone)>>,
          results  |-> VectorSearch(collection, q, n, PyNone)]

\* n_results by query type
ResultsFor(query_type) ==
    IF query_type = "factual" THEN FactualResults
    ELSE IF query_type = "exploratory" THEN ExploratoryResults
    ELSE TopK

\* `if not query_type: query_type = self.classify_query_type(query)`
QueryTypeOf(query, query_type) ==
    IF query_type = PyNone \/ query_type = "" THEN classify_query_type(query) ELSE query_type

\* `if content_type_filter:` builds the filter, else None is passed
FilterMetadata(content_type_filter) ==
    IF content_type_filter = PyNone \/ content_type_filter = "" THEN PyNone
    ELSE content_type_filter

retrieve_documents(collection, query, query_type, content_type_filter) ==
    RetrieveWithRetry(collection, query, ResultsFor(QueryTypeOf(query, query_type)),
                      FilterMetadata(content_type_filter),
                      VectorSearch(collection, query, ResultsFor(QueryTypeOf(query, query_type)),
                             FilterMetadata(content_type_filter)))

RetrieveDocumentsInputs ==
    {[fn |-> "retrieve_documents", collection |-> c, query |-> q, query_type |-> t,
      content_type_filter |-> f] :
        c \in SUBSET Ids,
        q \in {"what is image", "explain", "q1"},
        t \in {PyNone, "factual", "exploratory", "cross_modal", "general"},
        f \in {PyNone, "", "text", "image", "table"}}

ApplyRetrieveDocuments ==
    /\ fn_in.fn = "retrieve_documents"
    /\ fn_out = NoFn
    /\ \E o \in {retrieve_documents(fn_in.collection, fn_in.query, fn_in.query_type,
                                    fn_in.content_type_filter)} :
           fn_out' = [fn |-> "retrieve_documents", searches |-> o.searches,
                      results |-> o.results]
    /\ UNCHANGED <<cache, now, index, grok_service, cache_enabled, last, merge_in, merge_out,
                   fn_in, chunker, ingest>>

FnInputs == KeyInputs \cup RerankInputs \cup ClassifyInputs \cup RetrieveDocumentsInputs

InitFn ==
    /\ fn_in \in FnInputs
    /\ fn_out = NoFn
    /\ chunker = IdleChunker
    /\ ingest = IdleIngest
    /\ merge_in = [per_variant |-> <<>>, n_results |-> 1]
    /\ merge_out = NoResultSet
    /\ cache = EmptyCache
    /\ cache_enabled = FALSE
    /\ now = 0
    /\ index = Ids
    /\ grok_service = TRUE
    /\ last = NoCall

NextFn ==
    \/ ApplyCacheKey
    \/ ApplyRerank
    \/ ApplyClassify
    \/ ApplyRetrieveDocuments

SpecFn == InitFn /\ [][NextFn]_vars

-----------------------------------------------------------------------------
(* chunk_text of src/utils/helpers.py, one loop iteration per step.  The     *)
(* text is a Python str; indices are Python's, counted from 0.               *)

Whitespace == {" ", "\n", "\t", "\r"}

\* the positions (from 1) of the characters of s that are not whitespace
Inked(s) == {i \in 1..Len(s) : CharAt(s, i) \notin Whitespace}

\* str.strip(): leading and trailing whitespace removed
StrStrip(s) ==
    IF Inked(s) = {} THEN ""
    ELSE PySlice(s, (CHOOSE i \in Inked(s) : \A j \in Inked(s) : i <= j) - 1,
                    CHOOSE i \in Inked(s) : \A j \in Inked(s) : j <= i)

\* str.rfind(sub): the highest index where sub starts, or -1
RECURSIVE RFindFrom(_, _, _)
RFindFrom(s, sub, i) ==
    IF i < 0 THEN 0 - 1
    ELSE IF PySlice(s, i, i + Len(sub)) = sub THEN i
    ELSE RFindFrom(s, sub, i - 1)

RFind(s, sub) == RFindFrom(s, sub, Len(s) - Len(sub))

\* for char in ['. ', '! ', '? ', '\n\n']
SentenceEndings == <<". ", "! ", "? ", "\n\n">>

\* the loop over the sentence endings from the k-th on: the first ending found
\* in text[start:end] moves end behind its last occurrence
RECURSIVE BreakAt(_, _, _, _)
BreakAt(text, start, end, k) ==
    IF k > Len(SentenceEndings) THEN end
    ELSE IF RFind(PySlice(text, start, end), SentenceEndings[k]) # 0 - 1
         THEN start + RFind(PySlice(text, start, end), SentenceEndings[k])
                    + Len(SentenceEndings[k])
    ELSE BreakAt(text, start, end, k + 1)

\* end of the chunk that starts at start
ChunkEnd(text, start, chunk_size) ==
    IF start + chunk_size < Len(text)
    THEN BreakAt(text, start, start + chunk_size, 1)
    ELSE start + chunk_size

\* chunks.append(...): the first MaxChunks chunks of a run are recorded
Record(list, x) == IF Len(list) < MaxChunks THEN Append(list, x) ELSE list

\* chunks.append(chunk); start = end - overlap
Emit(c, end, chunk) ==
    [c EXCEPT !.chunks  = Record(@, chunk),
              !.windows = Record(@, <<c.start, end>>),
              !.start   = end - c.overlap,
              !.turn    = 1 - @]

\* texts of up to MaxTextLen characters over a letter, a full stop and a blank
RECURSIVE Texts(_)
Texts(n) ==
    IF n = 0 THEN {""}
    ELSE Texts(n - 1) \cup {t \o ch : t \in {u \in Texts(n - 1) : Len(u) = n - 1},
                                     ch \in {"a", ".", " "}}

\* the example of the chunking policy
SentenceExample ==
    [text |-> "Sentence one. Sentence two. Sentence three.", chunk_size |-> 15, overlap |-> 5]

\* a text that starts with a sentence ending shorter than the overlap
ShortSentenceExample == [text |-> ". aaaaaaa", chunk_size |-> 7, overlap |-> 3]

ChunkInputs ==
    {SentenceExample, ShortSentenceExample}
    \cup {[text |-> t, chunk_size |-> size, overlap |-> o] :
             t \in Texts(MaxTextLen), size \in 1..MaxChunkSize, o \in 0..(MaxChunkSize - 1)}

ChunkerVars == <<cache, now, index, grok_service, cache_enabled, last, merge_in, merge_out,
                 fn_in, fn_out, ingest>>

InitChunk ==
    /\ chunker = IdleChunker
    /\ ingest = IdleIngest
    /\ fn_in = NoFn
    /\ fn_out = NoFn
    /\ merge_in = [per_variant |-> <<>>, n_results |-> 1]
    /\ merge_out = NoResultSet
    /\ cache = EmptyCache
    /\ cache_enabled = FALSE
    /\ now = 0
    /\ index = Ids
    /\ grok_service = TRUE
    /\ last = NoCall

\* chunk_text(text, chunk_size, overlap) up to the loop:
\* if len(text) <= chunk_size: return [text]; else chunks = [], start = 0
ChunkTextCall ==
    /\ chunker.pc = "idle"
    /\ \E in \in {i \in ChunkInputs : i.overlap < i.chunk_size} :
           chunker' = IF Len(in.text) <= in.chunk_size
                      THEN [pc |-> "done", text |-> in.text, chunk_size |-> in.chunk_size,
                            overlap |-> in.overlap, start |-> 0, chunks |-> <<in.text>>,
                            windows |-> << <<0, Len(in.text)>> >>, turn |-> 0]
                      ELSE [pc |-> "loop", text |-> in.text, chunk_size |-> in.chunk_size,
                            overlap |-> in.overlap, start |-> 0, chunks |-> <<>>,
                            windows |-> <<>>, turn |-> 0]
    /\ UNCHANGED ChunkerVars

\* one iteration of `while start < len(text)`
ChunkLoop ==
    /\ chunker.pc = "loop"
    /\ chunker.start < Len(chunker.text)
    /\ \E end \in {ChunkEnd(chunker.text, chunker.start, chunker.chunk_size)} :
           \E chunk \in {StrStrip(PySlice(chunker.text, chunker.start, end))} :
               chunker' = Emit(chunker, end, chunk)
    /\ UNCHANGED ChunkerVars

\* the loop condition fails: return chunks
ChunkReturn ==
    /\ chunker.pc = "loop"
    /\ chunker.start >= Len(chunker.text)
    /\ chunker' = [chunker EXCEPT !.pc = "done"]
    /\ UNCHANGED ChunkerVars

NextChunk ==
    \/ ChunkTextCall
    \/ ChunkLoop
    \/ ChunkReturn

SpecChunk == InitChunk /\ [][NextChunk]_vars

\* a call that has entered keeps running while it has a step to take
SpecChunkLive == SpecChunk /\ WF_vars(ChunkLoop \/ ChunkReturn)

-----------------------------------------------------------------------------
(* The engine with the cache enabled, called with queries and strategy names *)
(* that are arbitrary strings.                                               *)

\* requests whose query or strategy name contains the ':' of the cache key
ColonRequests ==
    {Req("q1:2", 2, "semantic", NoFilter),
     Req("q1", 2, "2:semantic", NoFilter),
     Req("q1", 2, "semantic", NoFilter),
     Req("q1:2", 2, "expanded", NoFilter)}

\* what an earlier process left in the cache directory
ColonSeedCaches ==
    {EmptyCache} \cup
    {CacheSet(EmptyCache, CacheKey(r.query, r.n_results, r.strategy, r.filter),
              SeedResult(r), CacheTTL, 0 - CacheTTL \div 2) : r \in ColonRequests}

InitStore ==
    /\ cache_enabled = TRUE
    /\ cache \in ColonSeedCaches
    /\ now = 0
    /\ index = Ids
    /\ grok_service \in BOOLEAN
    /\ last = NoCall
    /\ merge_in = [per_variant |-> <<>>, n_results |-> 1]
    /\ merge_out = NoResultSet
    /\ fn_in = NoFn
    /\ fn_out = NoFn
    /\ chunker = IdleChunker
    /\ ingest = IdleIngest

DoRetrieveColon ==
    \E r \in ColonRequests :
        \E env \in Envs(r.query, r.n_results, r.strategy) :
            RetrieveCall(r.query, r.n_results, r.strategy, r.filter, env)

\* a completion that answers more lines than the three it was asked for
LongCompletion == [ok |-> TRUE, lines |-> <<"q2", "q3", "q4", "q5">>]

\* an expanded retrieve during which the completion service answers at length
DoRetrieveLongCompletion ==
    /\ grok_service
    /\ \E r \in {Req("q1", 2, "expanded", NoFilter)} :
           RetrieveCall(r.query, r.n_results, r.strategy, r.filter, Env("none", 0, LongCompletion))

\* hybrid requests for fewer and for more candidates than the index holds
HybridRequests ==
    {Req("q1", 1, "hybrid", NoFilter),
     Req("q2", 2, "hybrid", NoFilter)}

DoRetrieveHybrid ==
    \E r \in HybridRequests :
        \E env \in Envs(r.query, r.n_results, r.strategy) :
            RetrieveCall(r.query, r.n_results, r.strategy, r.filter, env)

NextStore ==
    \/ DoRetrieveColon
    \/ DoRetrieveHybrid
    \/ DoRetrieveLongCompletion
    \/ ClearCache
    \/ Tick

SpecStore == InitStore /\ [][NextStore]_vars

-----------------------------------------------------------------------------
(* The engine with the cache enabled while chunks are deleted from the index *)

StoreUnchanged == <<cache, now, grok_service, cache_enabled, last, merge_in, merge_out,
                    fn_in, fn_out, chunker, ingest>>

\* VectorStore.delete_documents(ids): collection.delete(ids=ids)
DeleteDocuments ==
    /\ \E id \in index : index' = index \ {id}
    /\ UNCHANGED StoreUnchanged

\* VectorStore.reset_collection: the collection is deleted and created anew
ResetCollection ==
    /\ index' = {}
    /\ UNCHANGED StoreUnchanged

NextDelete ==
    \/ DoRetrieveColon
    \/ DeleteDocuments
    \/ ResetCollection
    \/ Tick

SpecDelete == InitStore /\ [][NextDelete]_vars

-----------------------------------------------------------------------------
(* IngestionPipeline.ingest_multiple_files, sequential and on a thread pool *)

\* the longest list of file paths handed to one call
MaxFiles == 3

\* Config.MAX_WORKERS = int(os.getenv('MAX_WORKERS', 4))
MAX_WORKERS == 4

\* Config.ALLOWED_EXTENSIONS
ALLOWED_EXTENSIONS == {"txt", "pdf", "png", "jpg", "jpeg", "docx", "xlsx"}

\* the files on disk, each within Config.MAX_UPLOAD_SIZE, with the number of
\* chunks its processor makes of it; any other path does not exist
Disk == [p \in {"a.txt", "B.PNG", "c.docx"} |->
            IF p = "a.txt" THEN 2 ELSE 1]

\* the paths a caller passes: the files on disk and one that is missing
Paths == DOMAIN Disk \cup {"gone.txt"}

\* Path(file_path).suffix.lower().lstrip('.')
Extension(file_path) ==
    IF RFind(file_path, ".") < 0 THEN ""
    ELSE StrLower(PySlice(file_path, RFind(file_path, ".") + 1, Len(file_path)))

\* helpers.get_file_type: type_mapping.get(ext, 'unknown')
get_file_type(file_path) ==
    CASE Extension(file_path) = "txt" -> "text"
      [] Extension(file_path) = "pdf" -> "pdf"
      [] Extension(file_path) \in {"png", "jpg", "jpeg"} -> "image"
      [] Extension(file_path) = "docx" -> "document"
      [] Extension(file_path) = "xlsx" -> "spreadsheet"
      [] OTHER -> "unknown"

\* helpers.validate_file: (is_valid, error_message); the message about the
\* extension goes on to list the allowed types
validate_file(file_path) ==
    IF file_path \notin DOMAIN Disk
    THEN [is_valid |-> FALSE, error_msg |-> "File does not exist"]
    ELSE IF Extension(file_path) \notin ALLOWED_EXTENSIONS
    THEN [is_valid |-> FALSE, error_msg |-> "File type ." \o Extension(file_path) \o " not allowed"]
    ELSE [is_valid |-> TRUE, error_msg |-> PyNone]

\* the dictionary ingest_file returns from its except clause
Failure(file_path, error) ==
    [success |-> FALSE, file_path |-> file_path, error |-> error]

\* IngestionPipeline.ingest_file: every exception raised on the way is caught
\* and becomes a result with success False.  An image is one chunk, its
\* caption; chunks_created is len(doc_ids), one id per chunk added.
ingest_file(file_path) ==
    IF ~validate_file(file_path).is_valid
    THEN Failure(file_path,
                 "File validation failed: " \o validate_file(file_path).error_msg)
    ELSE IF get_file_type(file_path) \notin {"text", "image", "pdf"}
    THEN Failure(file_path, "Unsupported file type: " \o get_file_type(file_path))
    ELSE [success |-> TRUE, file_path |-> file_path,
          file_type |-> get_file_type(file_path),
          chunks_created |-> IF get_file_type(file_path) = "image" THEN 1
                             ELSE Disk[file_path]]

\* the chunks a finished ingest_file has added to the collection
AddedBy(result) == IF result.success THEN result.chunks_created ELSE 0

\* the lists of up to MaxFiles paths; a path may occur more than once
FilePathLists == UNION {[1..n -> Paths] : n \in 0..MaxFiles}

Pending == [state |-> "pending"]

Running == [state |-> "running"]

Done(result) == [state |-> "done", result |-> result]

IngestVars == <<cache, now, index, grok_service, cache_enabled, last, merge_in, merge_out,
                fn_in, fn_out, chunker>>

InitIngest ==
    /\ ingest = IdleIngest
    /\ chunker = IdleChunker
    /\ fn_in = NoFn
    /\ fn_out = NoFn
    /\ merge_in = [per_variant |-> <<>>, n_results |-> 1]
    /\ merge_out = NoResultSet
    /\ last = NoCall
    /\ cache_enabled = FALSE
    /\ cache = EmptyCache
    /\ now = 0
    /\ index = Ids
    /\ grok_service = FALSE

\* ingest_multiple_files(file_paths, parallel).  In parallel mode the dict
\* comprehension submits ingest_file(fp) for every path, in the order of
\* file_paths, before the first result is asked for.
IngestMultipleFiles ==
    /\ ingest.pc = "idle"
    /\ \E file_paths \in FilePathLists, parallel \in BOOLEAN :
          ingest' = [ingest EXCEPT
                        !.pc = IF parallel THEN "gather" ELSE "sequential",
                        !.file_paths = file_paths,
                        !.parallel = parallel,
                        !.futures = IF parallel
                                    THEN [i \in 1..Len(file_paths) |-> Pending]
                                    ELSE <<>>]
    /\ UNCHANGED IngestVars

\* the sequential loop: results.append(self.ingest_file(file_path))
IngestSequentialStep ==
    /\ ingest.pc = "sequential"
    /\ Len(ingest.results) < Len(ingest.file_paths)
    /\ \E result \in {ingest_file(ingest.file_paths[Len(ingest.results) + 1])} :
          ingest' = [ingest EXCEPT !.results = Append(@, result),
                                   !.stored = @ + AddedBy(result)]
    /\ UNCHANGED IngestVars

\* a worker thread of the pool takes the oldest item of the work queue; the
\* pool has at most MAX_WORKERS threads
WorkerStart ==
    /\ ingest.pc = "gather"
    /\ Cardinality({i \in DOMAIN ingest.futures : ingest.futures[i] = Running})
         < MAX_WORKERS
    /\ \E i \in DOMAIN ingest.futures :
          /\ ingest.futures[i] = Pending
          /\ \A j \in 1..(i - 1) : ingest.futures[j] # Pending
          /\ ingest' = [ingest EXCEPT !.futures[i] = Running]
    /\ UNCHANGED IngestVars

\* any running ingest_file returns and its future gets the result; completed
\* lists the futures in the order they finished
WorkerFinish ==
    /\ ingest.pc = "gather"
    /\ \E i \in DOMAIN ingest.futures :
          /\ ingest.futures[i] = Running
          /\ \E result \in {ingest_file(ingest.file_paths[i])} :
                ingest' = [ingest EXCEPT !.futures[i] = Done(result),
                                         !.completed = Append(@, i),
                                         !.stored = @ + AddedBy(result)]
    /\ UNCHANGED IngestVars

\* the future the k-th iteration of `for future in future_to_file` waits for,
\* of n submitted: a dict iterates its keys in insertion order
FutureAtReversed(n, k) == n + 1 - k

FutureAt(n, k) == k

\* one iteration of the loop over future_to_file: future.result() blocks until
\* that future is done; ingest_file raises nothing, so the except clause of
\* the loop is never entered
GatherResult ==
    /\ ingest.pc = "gather"
    /\ Len(ingest.results) < Len(ingest.file_paths)
    /\ \E f \in {FutureAt(Len(ingest.file_paths), Len(ingest.results) + 1)} :
          /\ ingest.futures[f].state = "done"
          /\ ingest' = [ingest EXCEPT !.results = Append(@, ingest.futures[f].result)]
    /\ UNCHANGED IngestVars

\* return results
IngestReturn ==
    /\ ingest.pc \in {"gather", "sequential"}
    /\ Len(ingest.results) = Len(ingest.file_paths)
    /\ ingest' = [ingest EXCEPT !.pc = "returned"]
    /\ UNCHANGED IngestVars

NextIngest ==
    \/ IngestMultipleFiles
    \/ IngestSequentialStep
    \/ WorkerStart
    \/ WorkerFinish
    \/ GatherResult
    \/ IngestReturn

SpecIngest == InitIngest /\ [][NextIngest]_vars

-----------------------------------------------------------------------------
(* Properties of RetrievalEngine.retrieve and its cache *)

KeyOf(l) == CacheKey(l.query, l.n_results, l.strategy, l.filter)

IndexCalls(calls) == SelectSeq(calls, LAMBDA c : c.op = "index")

\* the step is the retrieve call that last' records
RetrieveStep ==
    /\ last'.op = "retrieve"
    /\ RetrieveCall(last'.query, last'.n_results, last'.strategy, last'.filter, last'.env)

\* what the chosen strategy computes on its first attempt for the recorded call
FirstAttempt(l) ==
    Dispatch(index, l.query, l.n_results, l.strategy, l.filter, grok_service, l.env)

\* C1: with the cache enabled, a retrieve that misses and whose strategy
\* succeeds has stored its ResultSet under the key of (q, n, s, f) with a
\* time-to-live of one hour by the time it returns, whatever the cache held
\* when the call started (no entries included).
C1_MissStoresResult ==
    (last.op = "retrieve" /\ cache_enabled /\ last.outcome = "returned" /\ ~last.hit)
        => /\ KeyOf(last) \in DOMAIN cache
           /\ cache[KeyOf(last)] = [value |-> last.results,
                                    expire_time |-> last.at + CacheTTL]

\* C2: when the cache holds an unexpired entry for the key of (q, n, s, f)
\* and can be read, retrieve returns exactly the stored ResultSet, calls
\* neither the vector index nor the query expander, and leaves the cache as
\* it was.
C2_HitReturnsStored ==
    [][(/\ RetrieveStep
        /\ cache_enabled
        /\ last'.env.cache_fault # "read"
        /\ CacheHas(cache, KeyOf(last'), now))
       => /\ last'.outcome = "returned"
          /\ last'.results = cache[KeyOf(last')].value
          /\ CountCalls(last'.calls, "index") = 0
          /\ CountCalls(last'.calls, "embed") = 0
          /\ CountCalls(last'.calls, "complete") = 0
          /\ cache' = cache]_vars

C2_Witness ==
    /\ last.op = "retrieve"
    /\ last.hit
    /\ last.outcome = "returned"
    /\ last.results.ids # <<>>
    /\ CacheHas(cache, KeyOf(last), now)

\* C6: a retrieve whose first attempt finds nothing under a non-empty filter
\* makes exactly one further attempt, without filter; in every other case it
\* makes the first attempt only.
C6_RetryWithoutFilter ==
    (last.op = "retrieve" /\ last.outcome = "returned" /\ ~last.hit)
        => LET first   == FirstAttempt(last)
               per     == Len(IndexCalls(first.calls))
               made    == IndexCalls(last.calls)
               retried == first.results.ids = <<>> /\ Truthy(last.filter)
           IN /\ Len(made) = IF retried THEN 2 * per ELSE per
              /\ \A i \in 1..Len(made) : i > per => ~Truthy(made[i].filter)

\* an index call of the recorded request raised: the collection was
\* unavailable at that call, or it rejected the requested count
IndexRaised(l) ==
    \/ l.env.index_fail_at >= 1 /\ CountCalls(l.calls, "index") >= l.env.index_fail_at
    \/ \E i \in 1..Len(l.calls) : l.calls[i].op = "index" /\ l.calls[i].n_results <= 0

\* C7: when a vector index call raises during retrieve, under any strategy,
\* the error reaches the caller, no ResultSet is returned, and no cache entry
\* is written or changed.
C7_IndexErrorPropagates ==
    [][(RetrieveStep /\ IndexRaised(last'))
       => /\ last'.outcome = "raised"
          /\ last'.results = NoResultSet
          /\ cache' = cache]_vars

C7_Witness ==
    /\ last.op = "retrieve"
    /\ last.strategy = "expanded"
    /\ last.env.index_fail_at = 2
    /\ IndexRaised(last)
    /\ last.outcome = "raised"
    /\ CacheLen(cache) > 0

\* C8: an error of the cache backend never fails a retrieval: a failing read
\* counts as a miss and the strategy runs, a failing write still lets the
\* computed ResultSet reach the caller.
C8_CacheErrorsSwallowed ==
    (last.op = "retrieve" /\ last.env.cache_fault # "none" /\ FirstAttempt(last).ok)
        => /\ last.outcome = "returned"
           /\ last.results = [FirstAttempt(last).results EXCEPT !.query = last.query,
                                                                 !.strategy = last.strategy]

\* C9: a retrieve with an empty query or a non-positive n_results is rejected
\* before the cache, the embedding, the index or the completion service is
\* called; POST /api/query with a JSON body without a 'query' field is
\* answered 400 and does not call retrieve.
C9_InvalidRequestRejected ==
    /\ (last.op = "retrieve" /\ (last.query = "" \/ last.n_results <= 0))
          => (last.outcome = "raised" /\ last.calls = <<>>)
    /\ (last.op = "query_documents" /\ last.body.json
                                     /\ "query" \notin DOMAIN last.body.data)
          => (last.status = 400 /\ ~last.retrieved)

\* C10: when the completion service fails while the answer is generated,
\* answer_query returns normally with answer None and with the retrieved
\* documents as sources.
C10_AnswerNoneOnFailure ==
    (last.op = "answer_query" /\ grok_service /\ ~last.answer_ok /\ last.outcome = "returned")
        => /\ last.answer = NoneAnswer
           /\ last.sources = last.results.documents

\* C5: when no completion service is configured, or its call fails, an
\* expanded retrieve that runs its strategy raises only where a semantic
\* retrieve would; otherwise its expanded queries are exactly the original
\* query and its ids, documents, metadatas, distances and relevance scores
\* are those of one semantic retrieval with the same query, count and filter.
C5_ExpansionFallback ==
    (/\ last.op = "retrieve"
     /\ last.strategy = "expanded"
     /\ (~grok_service \/ ~last.env.completion.ok)
     /\ last.env.cache_fault = "none"
     /\ ~last.hit)
    => LET sem == SemanticRetrieval(index, last.query, last.n_results, last.filter,
                                    last.env.index_fail_at)
       IN /\ (last.outcome = "returned") <=> sem.ok
          /\ sem.ok => /\ last.results.expanded_queries = <<last.query>>
                       /\ last.results.ids = sem.results.ids
                       /\ last.results.documents = sem.results.documents
                       /\ last.results.metadatas = sem.results.metadatas
                       /\ last.results.distances = sem.results.distances
                       /\ last.results.relevance_scores = sem.results.relevance_scores

C5_Witness ==
    /\ last.op = "retrieve"
    /\ last.strategy = "expanded"
    /\ grok_service
    /\ ~last.env.completion.ok
    /\ last.outcome = "returned"
    /\ ~last.hit
    /\ Len(last.results.ids) = 2

-----------------------------------------------------------------------------
(* Properties of the expanded merge *)

Applied == merge_out.expanded_queries # <<>>

\* variant v answered with the id
Holds(v, id) ==
    \E j \in 1..Len(merge_in.per_variant[v].ids) : merge_in.per_variant[v].ids[j] = id

FirstVariant(id) ==
    CHOOSE v \in 1..Len(merge_in.per_variant) :
        Holds(v, id) /\ \A w \in 1..(v - 1) : ~Holds(w, id)

Position(v, id) ==
    CHOOSE j \in 1..Len(merge_in.per_variant[v].ids) : merge_in.per_variant[v].ids[j] = id

\* the answer of the earliest variant that holds the id
FirstAnswer(id) ==
    Item(merge_in.per_variant[FirstVariant(id)], Position(FirstVariant(id), id))

MergedIds ==
    {id \in Ids : \E v \in 1..Len(merge_in.per_variant) : Holds(v, id)}

\* C3: in the merged ResultSet of the expanded strategy every id appears at
\* most once, and the document, metadata and distance next to it are those
\* of the earliest variant, in processing order, that returned the id.
C3_FirstOccurrenceWins ==
    Applied =>
        \A i \in 1..Len(merge_out.ids) :
            /\ \A j \in 1..Len(merge_out.ids) : j # i => merge_out.ids[j] # merge_out.ids[i]
            /\ merge_out.ids[i] \in MergedIds
            /\ merge_out.documents[i] = FirstAnswer(merge_out.ids[i]).document
            /\ merge_out.metadatas[i] = FirstAnswer(merge_out.ids[i]).metadata
            /\ merge_out.distances[i] = FirstAnswer(merge_out.ids[i]).distance

C3_Witness ==
    /\ Applied
    /\ Len(merge_in.per_variant) >= 2
    /\ \E i \in 1..Len(merge_out.ids) :
          /\ Holds(1, merge_out.ids[i])
          /\ Holds(2, merge_out.ids[i])
          /\ merge_in.per_variant[2].distances[Position(2, merge_out.ids[i])]
                 < merge_out.distances[i]

\* C4: the expanded strategy returns min(n_results, number of distinct
\* merged ids) items in non-decreasing distance order, no merged item left
\* out is strictly nearer than a returned one, and the five sequences stay
\* aligned index by index.
C4_SortedTopN ==
    Applied =>
        LET k == Len(merge_out.ids)
        IN /\ k = Min(merge_in.n_results, Cardinality(MergedIds))
           /\ Len(merge_out.documents) = k
           /\ Len(merge_out.metadatas) = k
           /\ Len(merge_out.distances) = k
           /\ Len(merge_out.relevance_scores) = k
           /\ \A i \in 1..(k - 1) : merge_out.distances[i] <= merge_out.distances[i + 1]
           /\ \A id \in MergedIds :
                 (\A i \in 1..k : merge_out.ids[i] # id)
                    => \A i \in 1..k : ~(FirstAnswer(id).distance < merge_out.distances[i])
           /\ \A i \in 1..k :
                 /\ merge_out.ids[i] \in MergedIds
                 /\ merge_out.documents[i] = FirstAnswer(merge_out.ids[i]).document
                 /\ merge_out.metadatas[i] = FirstAnswer(merge_out.ids[i]).metadata
                 /\ merge_out.distances[i] = FirstAnswer(merge_out.ids[i]).distance
                 /\ merge_out.relevance_scores[i] = 1 - merge_out.distances[i]

C4_Witness ==
    /\ Applied
    /\ Cardinality(MergedIds) > merge_in.n_results
    /\ Len(merge_in.per_variant[1].ids) >= 1
    /\ \A i \in 1..Len(merge_out.ids) : merge_out.ids[i] # merge_in.per_variant[1].ids[1]

-----------------------------------------------------------------------------
(* Properties of the cache key *)

\* the key/value pairs a filter holds, whatever their order
PairsOf(f) == {f.items[i] : i \in 1..Len(f.items)}

\* C11: two retrieve calls with equal query, n_results and strategy whose
\* filters hold the same key/value pairs get the same cache key, whatever
\* the order in which the pairs were inserted.
C11_KeyIgnoresInsertionOrder ==
    (/\ fn_out.fn = "cache_key"
     /\ fn_in.a.query = fn_in.b.query
     /\ fn_in.a.n_results = fn_in.b.n_results
     /\ fn_in.a.strategy = fn_in.b.strategy
     /\ fn_in.a.filter.none = fn_in.b.filter.none
     /\ PairsOf(fn_in.a.filter) = PairsOf(fn_in.b.filter))
    => fn_out.a = fn_out.b

-----------------------------------------------------------------------------
(* Properties of rerank_results *)

\* position of the id in the candidate set handed to rerank_results
InputPosition(id) ==
    CHOOSE i \in 1..Len(fn_in.results.ids) : fn_in.results.ids[i] = id

\* C12: rerank_results on a non-empty candidate set returns
\* min(top_k, number of candidates) of the candidates, marked reranked, in
\* non-increasing order of rerank score, and no candidate left out has a
\* score strictly greater than a returned one.
C12_RerankTopK ==
    (fn_out.fn = "rerank" /\ fn_in.results.documents # <<>>)
    => LET scores == RerankScores(fn_in.results)
           out    == fn_out.results
           k      == Len(out.ids)
       IN /\ k = Min(fn_in.top_k, Len(scores))
          /\ out.reranked
          /\ Len(out.documents) = k /\ Len(out.metadatas) = k
          /\ Len(out.distances) = k /\ Len(out.relevance_scores) = k
          /\ \A i, j \in 1..k : i # j => out.ids[i] # out.ids[j]
          /\ \A i \in 1..k :
                /\ \E p \in 1..Len(scores) : fn_in.results.ids[p] = out.ids[i]
                /\ out.documents[i] = fn_in.results.documents[InputPosition(out.ids[i])]
                /\ out.metadatas[i] = fn_in.results.metadatas[InputPosition(out.ids[i])]
                /\ out.distances[i] = fn_in.results.distances[InputPosition(out.ids[i])]
                /\ out.relevance_scores[i] = scores[InputPosition(out.ids[i])]
          /\ \A i \in 1..(k - 1) : out.relevance_scores[i] >= out.relevance_scores[i + 1]
          /\ \A p \in 1..Len(scores) :
                (\A i \in 1..k : out.ids[i] # fn_in.results.ids[p])
                   => \A i \in 1..k : ~(scores[p] > out.relevance_scores[i])

C12_Witness ==
    /\ fn_out.fn = "rerank"
    /\ Len(fn_out.results.ids) = fn_in.top_k
    /\ fn_in.top_k >= 2
    /\ Len(fn_in.results.ids) > fn_in.top_k
    /\ fn_out.results.ids[1] # fn_in.results.ids[1]
    /\ fn_out.results.relevance_scores[1] > fn_out.results.relevance_scores[2]

\* C13: two candidates of equal rerank score that are both returned by
\* rerank_results come in the same relative order as in the candidate set.
C13_TiesKeepInputOrder ==
    fn_out.fn = "rerank"
    => \A i, j \in 1..Len(fn_out.results.ids) :
          (i < j /\ fn_out.results.relevance_scores[i] = fn_out.results.relevance_scores[j])
             => InputPosition(fn_out.results.ids[i]) < InputPosition(fn_out.results.ids[j])

-----------------------------------------------------------------------------
(* Properties of classify_query_type *)

\* the query matches a pattern of the family, letter case aside
MatchesFamily(patterns, query) == AnyMatch(patterns, StrLower(query))

\* C14: classify_query_type answers for every query, by a fixed priority:
\* factual if any factual pattern matches, else cross_modal if any
\* cross-modal pattern matches, else exploratory if any exploratory pattern
\* matches, else general; the answer is the same for the query in upper and
\* in lower case.
C14_ClassifyPriority ==
    fn_out.fn = "classify"
    => \E factual \in {MatchesFamily(factual_patterns, fn_in.query)} :
       \E cross_modal \in {MatchesFamily(cross_modal_patterns, fn_in.query)} :
       \E vague \in {MatchesFamily(vague_patterns, fn_in.query)} :
           /\ fn_out.type \in {"factual", "cross_modal", "exploratory", "general"}
           /\ factual => fn_out.type = "factual"
           /\ (~factual /\ cross_modal) => fn_out.type = "cross_modal"
           /\ (~factual /\ ~cross_modal /\ vague) => fn_out.type = "exploratory"
           /\ (~factual /\ ~cross_modal /\ ~vague) => fn_out.type = "general"
           /\ fn_out.type = classify_query_type(StrUpper(fn_in.query))
           /\ fn_out.type = classify_query_type(StrLower(fn_in.query))

\* a query in upper case that matches a factual and an exploratory pattern
C14_Witness ==
    /\ fn_out.fn = "classify"
    /\ fn_in.query = StrUpper(fn_in.query)
    /\ MatchesFamily(factual_patterns, fn_in.query)
    /\ MatchesFamily(vague_patterns, fn_in.query)
    /\ fn_out.type = "factual"

-----------------------------------------------------------------------------
(* The chunker.                                                              *)

IsCall(in) ==
    /\ chunker.text = in.text
    /\ chunker.chunk_size = in.chunk_size
    /\ chunker.overlap = in.overlap

\* position p (characters before it) is the end of the text or just behind ". "
OnSentenceBoundary(text, p) == p >= Len(text) \/ PySlice(text, Max(p - 2, 0), Max(p, 0)) = ". "

\* position p lies between two letters of one word
MidWord(text, p) ==
    /\ p > 0
    /\ p < Len(text)
    /\ CharAt(text, p) \in WordChars
    /\ CharAt(text, p + 1) \in WordChars

\* C15: chunk_text("Sentence one. Sentence two. Sentence three.", 15, 5)
\* returns, and in the list it returns every cut lies on a ". " boundary (or
\* at the end of the text) and no chunk begins or ends inside a word.
C15_SentenceExampleCuts ==
    (chunker.pc = "loop" /\ IsCall(SentenceExample))
        ~> (/\ chunker.pc = "done"
            /\ IsCall(SentenceExample)
            /\ \A i \in 1..Len(chunker.windows) :
                   /\ OnSentenceBoundary(chunker.text, chunker.windows[i][2])
                   /\ ~MidWord(chunker.text, chunker.windows[i][1])
                   /\ ~MidWord(chunker.text, chunker.windows[i][2]))

\* C16: for a text no longer than chunk_size the call returns the one chunk
\* strip(text) when the text is not empty, and no chunk for the empty text.
C16_ShortText ==
    (chunker.pc = "done" /\ Len(chunker.text) <= chunker.chunk_size)
        => chunker.chunks = IF chunker.text = "" THEN <<>> ELSE <<StrStrip(chunker.text)>>

\* C17: every chunk the chunker emits has a character that is not whitespace.
C17_NoBlankChunk ==
    \A i \in 1..Len(chunker.chunks) : StrStrip(chunker.chunks[i]) # ""

\* the characters of text[a:b], as positions counted from 0
SlicePositions(text, a, b) == SliceIndex(text, a)..(SliceIndex(text, b) - 1)

\* C18: when the call has returned, every character of the text that is not
\* whitespace lies in the slice of some emitted chunk.
C18_Coverage ==
    chunker.pc = "done"
        => \A p \in 0..(Len(chunker.text) - 1) :
               CharAt(chunker.text, p + 1) \notin Whitespace
                   => \E i \in 1..Len(chunker.windows) :
                          p \in SlicePositions(chunker.text, chunker.windows[i][1],
                                               chunker.windows[i][2])

-----------------------------------------------------------------------------
(* The cache switched off.                                                   *)

\* C19: with the cache disabled nothing is ever stored and clear_cache
\* changes nothing; a retrieve call is never a hit, calls nothing on a cache
\* and makes exactly the calls of its strategy; the ResultSet it returns is
\* the one an engine with the cache enabled returns on a miss.
C19_CacheDisabled ==
    ~cache_enabled
    => /\ cache = EmptyCache
       /\ last.op = "retrieve"
          => /\ ~last.hit
             /\ last.calls = Dispatch(index, last.query, last.n_results, last.strategy,
                                      last.filter, grok_service, last.env).calls
             /\ last.outcome = "returned"
                => \A c \in SeedCaches :
                       ~CacheHas(c, CacheKey(last.query, last.n_results, last.strategy,
                                             last.filter), last.at)
                       => Retrieve(c, last.at, index, grok_service, TRUE, last.query,
                                   last.n_results, last.strategy, last.filter,
                                   last.env).results = last.results

\* with the cache disabled, a later retrieve of the same arguments has called
\* the index again and returned chunks
C19_Witness ==
    /\ ~cache_enabled
    /\ last.op = "retrieve"
    /\ last.at > 0
    /\ last.outcome = "returned"
    /\ CountCalls(last.calls, "index") > 0
    /\ Len(last.results.ids) > 0

-----------------------------------------------------------------------------
(* Strategy names.                                                           *)

KnownStrategies == {"semantic", "hybrid", "expanded"}

\* C20: a retrieve call with a strategy name outside semantic, hybrid and
\* expanded, during which no collaborator fails, returns, and its ids,
\* documents, metadatas, distances and relevance_scores are those retrieve
\* gives in the same state for the same query, n_results and filter with the
\* strategy semantic.
C20_UnknownStrategyIsSemantic ==
    [][(/\ last' # last
        /\ last'.op = "retrieve"
        /\ last'.strategy \notin KnownStrategies
        /\ last'.env = NoEnv)
       => /\ last'.outcome = "returned"
          /\ \E sem \in {Retrieve(cache, now, index, grok_service, cache_enabled,
                                  last'.query, last'.n_results, "semantic", last'.filter,
                                  NoEnv)} :
                 /\ sem.outcome = "returned"
                 /\ last'.results.ids = sem.results.ids
                 /\ last'.results.documents = sem.results.documents
                 /\ last'.results.metadatas = sem.results.metadatas
                 /\ last'.results.distances = sem.results.distances
                 /\ last'.results.relevance_scores = sem.results.relevance_scores]_vars

\* a retrieve call with the strategy name "keyword" has returned chunks
C20_Witness ==
    /\ last.op = "retrieve"
    /\ last.strategy = "keyword"
    /\ last.env = NoEnv
    /\ last.outcome = "returned"
    /\ ~last.hit
    /\ Len(last.results.ids) > 0

-----------------------------------------------------------------------------
(* Shape of the ResultSet.                                                   *)

\* the index calls among the calls of a retrieve
IndexCallsOf(calls) == SelectSeq(calls, LAMBDA c : c.op = "index")

\* C21: a ResultSet that retrieve computed (no hit) under semantic, hybrid or
\* expanded has ids, documents, metadatas, distances and relevance_scores of
\* one length, with relevance_scores[i] = 1 - distances[i]; under semantic the
\* call made exactly one index call, with the query as it was passed.
C21_ResultSetShape ==
    (/\ last.op = "retrieve"
     /\ last.outcome = "returned"
     /\ ~last.hit
     /\ last.strategy \in KnownStrategies)
    => /\ Len(last.results.documents) = Len(last.results.ids)
       /\ Len(last.results.metadatas) = Len(last.results.ids)
       /\ Len(last.results.distances) = Len(last.results.ids)
       /\ Len(last.results.relevance_scores) = Len(last.results.ids)
       /\ \A i \in 1..Len(last.results.ids) :
              last.results.relevance_scores[i] = 1 - last.results.distances[i]
       /\ last.strategy = "semantic"
          => /\ Len(IndexCallsOf(last.calls)) = 1
             /\ IndexCallsOf(last.calls)[1].query = last.query

\* a semantic retrieve that missed has returned two chunks, one of them at a
\* distance that is not 0
C21_Witness ==
    /\ last.op = "retrieve"
    /\ last.outcome = "returned"
    /\ ~last.hit
    /\ last.strategy = "semantic"
    /\ Len(last.results.ids) = 2
    /\ \E i \in 1..Len(last.results.ids) : last.results.distances[i] # 0

-----------------------------------------------------------------------------
(* Progress of the chunking loop.                                            *)

\* C22: a call of chunk_text that has entered its loop returns; the window
\* start is never negative; every loop iteration leaves the window start
\* greater than it found it.
C22_ChunkTextTerminates ==
    /\ [](chunker.start >= 0)
    /\ [][(chunker.pc = "loop" /\ chunker'.pc = "loop")
              => chunker'.start > chunker.start]_vars
    /\ (chunker.pc = "loop") ~> (chunker.pc = "done")

\* the windows a text of n characters has when the start advances by step
WindowCount(n, step) == (n + step - 1) \div step

\* C23: every loop iteration advances the window start by exactly
\* chunk_size - overlap, wherever the window end was cut, so a call that went
\* through the loop made as many windows as len(text), chunk_size and overlap
\* determine.
C23_FixedStride ==
    /\ [][(chunker.pc = "loop" /\ chunker'.pc = "loop")
              => chunker'.start = chunker.start + chunker.chunk_size - chunker.overlap]_vars
    /\ []((chunker.pc = "done" /\ Len(chunker.text) > chunker.chunk_size)
              => Len(chunker.windows)
                     = WindowCount(Len(chunker.text), chunker.chunk_size - chunker.overlap))

-----------------------------------------------------------------------------
(* The filter of a request.                                                  *)

\* C24: a retrieve call under semantic, hybrid or expanded with a non-empty
\* filter passes that filter with every index call it makes, and every item
\* of the ResultSet it returns satisfies the filter.
C24_FilterOnEveryIndexCall ==
    (/\ last.op = "retrieve"
     /\ last.strategy \in KnownStrategies
     /\ Truthy(last.filter)
     /\ ~last.hit)
    => /\ \A i \in 1..Len(IndexCallsOf(last.calls)) :
              IndexCallsOf(last.calls)[i].filter = last.filter
       /\ last.outcome = "returned"
          => \A i \in 1..Len(last.results.ids) : Matches(last.results.ids[i], last.filter)

-----------------------------------------------------------------------------
(* The cache key.                                                            *)

\* C25: with the cache enabled, a retrieve call that returns, from the cache
\* or computed, returns a ResultSet whose query and strategy fields are the
\* query and the strategy name of the call, whatever strings they are.
C25_ResultNamesItsCall ==
    (/\ cache_enabled
     /\ last.op = "retrieve"
     /\ last.outcome = "returned")
    => /\ last.results.query = last.query
       /\ last.results.strategy = last.strategy

-----------------------------------------------------------------------------
(* The variants of the expanded strategy.                                    *)

\* C26: an expanded retrieve that computes its result makes at most 4 index
\* calls, the first with the original query; when it returns, the queries it
\* used are the original and at most 3 paraphrases, and the index calls were
\* made for them in that order.
C26_AtMostFourVariants ==
    (/\ last.op = "retrieve"
     /\ last.strategy = "expanded"
     /\ ~last.hit)
    => /\ Len(IndexCallsOf(last.calls)) <= 4
       /\ Len(IndexCallsOf(last.calls)) > 0 => IndexCallsOf(last.calls)[1].query = last.query
       /\ last.outcome = "returned"
          => /\ Len(last.results.expanded_queries) <= 4
             /\ Len(IndexCallsOf(last.calls)) = Len(last.results.expanded_queries)
             /\ \A i \in 1..Len(last.results.expanded_queries) :
                    IndexCallsOf(last.calls)[i].query = last.results.expanded_queries[i]

-----------------------------------------------------------------------------
(* The hybrid strategy.                                                      *)

\* C27: a hybrid retrieve that computes its result makes one index call, for
\* 2 * n_results candidates; when it returns, its distances are ascending and
\* its ids, documents, metadatas and distances are those of the semantic
\* strategy for the same query and n_results on the same index.
C27_HybridIsSemantic ==
    [][(/\ last' # last
        /\ last'.op = "retrieve"
        /\ last'.strategy = "hybrid"
        /\ ~last'.hit
        /\ last'.outcome = "returned")
       => /\ Len(IndexCallsOf(last'.calls)) = 1
          /\ IndexCallsOf(last'.calls)[1].query = last'.query
          /\ IndexCallsOf(last'.calls)[1].n_results = 2 * last'.n_results
          /\ Ascending(last'.results.distances)
          /\ \E sem \in {SemanticRetrieval(index, last'.query, last'.n_results, NoFilter, 0)} :
                 /\ sem.ok
                 /\ last'.results.ids = sem.results.ids
                 /\ last'.results.documents = sem.results.documents
                 /\ last'.results.metadatas = sem.results.metadatas
                 /\ last'.results.distances = sem.results.distances]_vars

\* a hybrid retrieve for one chunk has computed its result from an index that
\* holds at least the two candidates asked for
C27_Witness ==
    /\ last.op = "retrieve"
    /\ last.strategy = "hybrid"
    /\ ~last.hit
    /\ last.outcome = "returned"
    /\ last.n_results = 1
    /\ Len(last.results.ids) = 1
    /\ last.results.ids[1] \in index
    /\ Cardinality(index) >= 2

-----------------------------------------------------------------------------
(* Deleted chunks.                                                           *)

\* C28: a retrieve call that returns, returns no id that was deleted from the
\* index before the call started: every id of its ResultSet is in the index
\* at the time of the call.
C28_NoDeletedIdReturned ==
    [][(/\ last' # last
        /\ last'.op = "retrieve"
        /\ last'.outcome = "returned")
       => \A i \in 1..Len(last'.results.ids) : last'.results.ids[i] \in index]_vars

-----------------------------------------------------------------------------
(* The retry of QueryEngine.retrieve_documents.                              *)

\* C29: retrieve_documents makes one or two searches; it makes a second one
\* only when the first answered no item and a content type filter was
\* passed; the second search carries no filter and its answer is what the
\* call returns.
C29_AtMostOneRetry ==
    fn_out.fn = "retrieve_documents"
    => /\ Len(fn_out.searches) \in {1, 2}
       /\ Len(fn_out.searches) = 2
          => /\ fn_out.searches[1].filter_metadata # PyNone
             /\ VectorSearch(fn_in.collection, fn_in.query, fn_out.searches[1].n_results,
                       fn_out.searches[1].filter_metadata) = <<>>
             /\ fn_out.searches[2].filter_metadata = PyNone
             /\ fn_out.results = VectorSearch(fn_in.collection, fn_in.query,
                                        fn_out.searches[2].n_results, PyNone)

-----------------------------------------------------------------------------
(* Properties of IngestionPipeline.ingest_multiple_files *)

\* the paths ingest_file cannot ingest: no such file, or a type without a
\* processor
FailingPaths == {"gone.txt", "c.docx"}

\* C30: ingest_multiple_files, parallel or sequential, returns one result per
\* input path, the i-th result describing file_paths[i] whatever order the
\* worker threads finished in; a failing file yields success False, and every
\* file's result is what ingest_file gives for that file alone.
C30_OneResultPerPathInOrder ==
    ingest.pc = "returned" =>
        /\ Len(ingest.results) = Len(ingest.file_paths)
        /\ \A i \in DOMAIN ingest.file_paths :
              /\ ingest.results[i].file_path = ingest.file_paths[i]
              /\ ingest.results[i].success = (ingest.file_paths[i] \notin FailingPaths)
              /\ ingest.results[i] = ingest_file(ingest.file_paths[i])

\* a parallel call has returned results for three different paths, one of
\* them failing, after the last file finished first and the first file last
C30_Witness ==
    /\ ingest.pc = "returned"
    /\ ingest.parallel
    /\ ingest.file_paths = <<"a.txt", "gone.txt", "B.PNG">>
    /\ ingest.completed = <<3, 2, 1>>
    /\ ingest.results[2].success = FALSE
    /\ ingest.results[3].success

=============================================================================
